---- MODULE Spec2Model ----
(***************************************************************************)
(* Model of the raw compiler bindings of spirv_cross (src/compiler.rs):    *)
(* the Compiler handle, its five operations and the engine buffers they    *)
(* obtain and release.  Every engine call and every read of engine memory  *)
(* is one step and is appended to `trace`.                                 *)
(***************************************************************************)
EXTENDS Integers, Sequences, FiniteSets, TLC

VARIABLES pc, op, args, ret, decorations, lastSet, arrays, mem, alloc, live,
          trace, failedAt, k, i, cur, out, collect, handles, deleted

opVars == <<pc, op, args, ret, decorations, lastSet, arrays, mem, alloc, live,
            trace, failedAt, k, i, cur, out, collect>>
handleVars == <<handles, deleted>>
vars == <<pc, op, args, ret, decorations, lastSet, arrays, mem, alloc, live,
          trace, failedAt, k, i, cur, out, collect, handles, deleted>>

(* ---------------- bounds ---------------- *)
MaxEntryPoints == 2
MaxResources == 2
MaxLiteral == 1
MaxHandles == 4

(* ---------------- sample inputs ---------------- *)
ValidIds == {1}
AllIds == {1, 2}
KindSamples == {"Binding", "DescriptorSet"}
Literals == 0..MaxLiteral
\* literals of the decorations the loaded module carries itself
ModuleLiterals == {0}
RawModelSamples == {"ExecutionModelVertex", "ExecutionModelGLCompute", "ExecutionModelMax"}
BadBytes == <<255>>
ByteSamples == {<<97>>, BadBytes}
Modules == {1, 2}
NULL == <<"null", 0, 0>>

(* ---------------- results ---------------- *)
Ok(v) == [ok |-> TRUE, val |-> v]
Err == [ok |-> FALSE, val |-> "Unhandled"]
\* the value of ret while an operation has not returned yet
Pending == [ok |-> FALSE, val |-> "pending"]

\* check!: a non-success engine status ends the operation with Err(Unhandled)
Check(status) == status = "Success"

(* ---------------- enum tables ---------------- *)
ExecutionModel_from_raw(raw) ==
    CASE raw = "ExecutionModelVertex" -> Ok("Vertex")
      [] raw = "ExecutionModelTessellationControl" -> Ok("TessellationControl")
      [] raw = "ExecutionModelTessellationEvaluation" -> Ok("TessellationEvaluation")
      [] raw = "ExecutionModelGeometry" -> Ok("Geometry")
      [] raw = "ExecutionModelFragment" -> Ok("Fragment")
      [] raw = "ExecutionModelGLCompute" -> Ok("GlCompute")
      [] raw = "ExecutionModelKernel" -> Ok("Kernel")
      [] OTHER -> Err

Decoration_as_raw_Collide(d) ==
    CASE d = "Binding" -> "DecorationDescriptorSet"
      [] d = "DescriptorSet" -> "DecorationDescriptorSet"
      [] OTHER -> "DecorationBlock"

Decoration_as_raw(d) ==
    CASE d = "RelaxedPrecision" -> "DecorationRelaxedPrecision"
      [] d = "SpecId" -> "DecorationSpecId"
      [] d = "Block" -> "DecorationBlock"
      [] d = "BufferBlock" -> "DecorationBufferBlock"
      [] d = "RowMajor" -> "DecorationRowMajor"
      [] d = "ColMajor" -> "DecorationColMajor"
      [] d = "ArrayStride" -> "DecorationArrayStride"
      [] d = "MatrixStride" -> "DecorationMatrixStride"
      [] d = "GlslShared" -> "DecorationGLSLShared"
      [] d = "GlslPacked" -> "DecorationGLSLPacked"
      [] d = "CPacked" -> "DecorationCPacked"
      [] d = "BuiltIn" -> "DecorationBuiltIn"
      [] d = "NoPerspective" -> "DecorationNoPerspective"
      [] d = "Flat" -> "DecorationFlat"
      [] d = "Patch" -> "DecorationPatch"
      [] d = "Centroid" -> "DecorationCentroid"
      [] d = "Sample" -> "DecorationSample"
      [] d = "Invariant" -> "DecorationInvariant"
      [] d = "Restrict" -> "DecorationRestrict"
      [] d = "Aliased" -> "DecorationAliased"
      [] d = "Volatile" -> "DecorationVolatile"
      [] d = "Constant" -> "DecorationConstant"
      [] d = "Coherent" -> "DecorationCoherent"
      [] d = "NonWritable" -> "DecorationNonWritable"
      [] d = "NonReadable" -> "DecorationNonReadable"
      [] d = "Uniform" -> "DecorationUniform"
      [] d = "SaturatedConversion" -> "DecorationSaturatedConversion"
      [] d = "Stream" -> "DecorationStream"
      [] d = "Location" -> "DecorationLocation"
      [] d = "Component" -> "DecorationComponent"
      [] d = "Index" -> "DecorationIndex"
      [] d = "Binding" -> "DecorationBinding"
      [] d = "DescriptorSet" -> "DecorationDescriptorSet"
      [] d = "Offset" -> "DecorationOffset"
      [] d = "XfbBuffer" -> "DecorationXfbBuffer"
      [] d = "XfbStride" -> "DecorationXfbStride"
      [] d = "FuncParamAttr" -> "DecorationFuncParamAttr"
      [] d = "FpRoundingMode" -> "DecorationFPRoundingMode"
      [] d = "FpFastMathMode" -> "DecorationFPFastMathMode"
      [] d = "LinkageAttributes" -> "DecorationLinkageAttributes"
      [] d = "NoContraction" -> "DecorationNoContraction"
      [] d = "InputAttachmentIndex" -> "DecorationInputAttachmentIndex"
      [] d = "Alignment" -> "DecorationAlignment"
      [] d = "OverrideCoverageNv" -> "DecorationOverrideCoverageNV"
      [] d = "PassthroughNv" -> "DecorationPassthroughNV"
      [] d = "ViewportRelativeNv" -> "DecorationViewportRelativeNV"
      [] d = "SecondaryViewportRelativeNv" -> "DecorationSecondaryViewportRelativeNV"

RawKinds == {"DecorationBinding", "DecorationDescriptorSet"}

\* CStr::from_ptr(p).to_owned().into_string(): bytes that are not text fail
IntoString(bytes) ==
    IF \A j \in 1..Len(bytes) : bytes[j] < 128 THEN Ok(bytes) ELSE Err

\* the 11 resource categories, in the order get_shader_resources fills them
Categories == <<"uniform_buffers", "storage_buffers", "stage_inputs",
                "stage_outputs", "subpass_inputs", "storage_images",
                "sampled_images", "atomic_counters", "push_constant_buffers",
                "separate_images", "separate_samplers">>
NumCategories == Len(Categories)

(* ---------------- engine buffers ---------------- *)
ArrayBuf(c) == <<"array", c, 0>>
NameBuf(c, j) == <<"name", c, j>>
SourceBuf == <<"source", 0, 0>>
\* entry_points_raw.offset(offset): the array's start only for offset 0
ElemPtr(c, offset) == IF offset = 0 THEN ArrayBuf(c) ELSE <<"array_off", c, offset>>

CallEv(fn, ptr, st) == [ev |-> "call", fn |-> fn, ptr |-> ptr, st |-> st]
ReadEv(what, ptr, st) == [ev |-> "read", fn |-> what, ptr |-> ptr, st |-> st]

(* ---------------- the engine (decoration store) ---------------- *)
Pairs == ValidIds \X RawKinds
\* a stored literal is {v}; an undecorated pair is {}
EngineGetDecoration(store, id, raw) ==
    IF id \in ValidIds /\ store[<<id, raw>>] # {}
    THEN [status |-> "Success", written |-> TRUE,
          value |-> CHOOSE v \in store[<<id, raw>>] : TRUE]
    ELSE [status |-> "Unhandled", written |-> FALSE, value |-> 0]

EngineSetDecoration(store, id, raw, argument) ==
    IF id \in ValidIds
    THEN [status |-> "Success", store |-> [store EXCEPT ![<<id, raw>>] = {argument}]]
    ELSE [status |-> "Unhandled", store |-> store]

\* sc_internal_free_pointer on a live buffer start releases it and succeeds;
\* on anything else it is undefined behaviour: any status
FreeStatuses(ptr) == IF ptr \in live THEN {"Success"} ELSE {"Success", "Unhandled"}

(* ---------------- initial state ---------------- *)
NoElem == [name |-> NULL, execution_model |-> "ExecutionModelMax", id |-> 0, text |-> <<>>]
NoArrays == [c \in 0..NumCategories |-> <<>>]
NoMem == [a \in {} |-> <<>>]

Init ==
    /\ pc = "idle"
    /\ op = "none"
    /\ args = <<>>
    /\ ret = Pending
    /\ decorations \in [Pairs -> {{}} \cup {{v} : v \in ModuleLiterals}]
    /\ lastSet = [p \in ValidIds \X KindSamples |-> {}]
    /\ arrays = NoArrays
    /\ mem = NoMem
    /\ alloc = {}
    /\ live = {}
    /\ trace = <<>>
    /\ failedAt = -1
    /\ k = 0
    /\ i = 0
    /\ cur = NoElem
    /\ out = <<>>
    /\ collect = TRUE
    /\ handles = [h \in 1..Cardinality(Modules) |-> [sc_compiler |-> h, st |-> "live"]]
    /\ deleted = [m \in Modules |-> 0]

\* an operation returns: its result is ready for the caller
Return(r) == pc' = "returned" /\ ret' = r

\* the first failure of the current operation, as a position in trace
Fail(tr) == IF failedAt = -1 THEN Len(tr) ELSE failedAt

(* ---------------- get_decoration / set_decoration ---------------- *)
GetDecorationReturn_Unchecked(status, result) == Ok(result)

GetDecorationReturn(status, result) ==
    IF Check(status) THEN Ok(result) ELSE Err

get_decoration(id, decoration) ==
    /\ pc = "idle"
    /\ LET r == EngineGetDecoration(decorations, id, Decoration_as_raw(decoration))
           result == IF r.written THEN r.value ELSE 0
           tr == <<CallEv("get_decoration", NULL, r.status)>>
       IN /\ trace' = tr
          /\ failedAt' = IF r.status = "Success" THEN -1 ELSE Len(tr)
          /\ Return(GetDecorationReturn(r.status, result))
    /\ op' = "get_decoration"
    /\ args' = <<id, decoration>>
    /\ arrays' = NoArrays /\ mem' = NoMem /\ alloc' = {} /\ live' = {}
    /\ k' = 0 /\ i' = 0 /\ cur' = NoElem /\ out' = <<>> /\ collect' = TRUE
    /\ UNCHANGED <<decorations, lastSet, handles, deleted>>

set_decoration(id, decoration, argument) ==
    /\ pc = "idle"
    /\ LET r == EngineSetDecoration(decorations, id, Decoration_as_raw(decoration), argument)
           tr == <<CallEv("set_decoration", NULL, r.status)>>
       IN /\ trace' = tr
          /\ failedAt' = IF r.status = "Success" THEN -1 ELSE Len(tr)
          /\ decorations' = r.store
          /\ IF Check(r.status)
             THEN /\ Return(Ok(0))
                  /\ lastSet' = [lastSet EXCEPT ![<<id, decoration>>] = {argument}]
             ELSE /\ Return(Err)
                  /\ UNCHANGED lastSet
    /\ op' = "set_decoration"
    /\ args' = <<id, decoration, argument>>
    /\ arrays' = NoArrays /\ mem' = NoMem /\ alloc' = {} /\ live' = {}
    /\ k' = 0 /\ i' = 0 /\ cur' = NoElem /\ out' = <<>> /\ collect' = TRUE
    /\ UNCHANGED <<handles, deleted>>

(* ---------------- compile ---------------- *)
CompileAfterCall_Unchecked(status) == "compile_decode"

\* check!(sc_internal_compiler_compile(..)): where compile() goes after the call
CompileAfterCall(status) == IF Check(status) THEN "compile_decode" ELSE "returned"

compile_call ==
    /\ pc = "idle"
    /\ \E status \in {"Success", "Unhandled"}, bytes \in ByteSamples :
         LET tr == <<CallEv("compile", NULL, status)>>
             got == status = "Success"
         IN /\ trace' = tr
            /\ failedAt' = IF got THEN -1 ELSE Len(tr)
            /\ alloc' = IF got THEN {SourceBuf} ELSE {}
            /\ live' = alloc'
            /\ mem' = IF got THEN [a \in {SourceBuf} |-> bytes] ELSE NoMem
            \* shader_ptr: the buffer handed back, or still null
            /\ cur' = [NoElem EXCEPT !.name = IF got THEN SourceBuf ELSE NULL]
            /\ pc' = CompileAfterCall(status)
            /\ ret' = IF pc' = "returned" THEN Err ELSE Pending
    /\ op' = "compile"
    /\ args' = <<>>
    /\ arrays' = NoArrays
    /\ k' = 0 /\ i' = 0 /\ out' = <<>> /\ collect' = TRUE
    /\ UNCHANGED <<decorations, lastSet, handles, deleted>>

\* the bytes a read of buffer ptr can yield: its content while it is live,
\* anything once it is freed or was never a buffer
BytesAt(ptr) == IF ptr \in live THEN {mem[ptr]} ELSE ByteSamples
Liveness(ptr) == IF ptr \in live THEN "live" ELSE "dead"

compile_decode ==
    /\ pc = "compile_decode"
    /\ \E bytes \in BytesAt(cur.name) :
         LET tr == Append(trace, ReadEv("source", cur.name, Liveness(cur.name)))
             shader == IntoString(bytes)
         IN /\ trace' = tr
            /\ IF shader.ok
               THEN /\ out' = shader.val
                    /\ pc' = "compile_free"
                    /\ UNCHANGED <<ret, failedAt>>
               ELSE /\ Return(Err)
                    /\ failedAt' = Fail(tr)
                    /\ UNCHANGED out
    /\ UNCHANGED <<op, args, decorations, lastSet, arrays, mem, alloc, live,
                   k, i, cur, collect, handles, deleted>>

compile_free ==
    /\ pc = "compile_free"
    /\ \E status \in FreeStatuses(cur.name) :
         LET tr == Append(trace, CallEv("free", cur.name, status))
         IN /\ trace' = tr
            /\ live' = live \ {cur.name}
            /\ IF Check(status)
               THEN Return(Ok(out)) /\ UNCHANGED failedAt
               ELSE Return(Err) /\ failedAt' = Fail(tr)
    /\ UNCHANGED <<op, args, decorations, lastSet, arrays, mem, alloc,
                   k, i, cur, out, collect, handles, deleted>>

(* ---------------- reading engine arrays ---------------- *)
\* what a read of element `offset` of array c yields: the element while the
\* array buffer is live; once the buffer is freed the read is undefined
\* behaviour and may yield the old element or any other bit pattern
GarbageElems ==
    {[name |-> p, execution_model |-> m, id |-> 0, text |-> <<>>] :
        p \in {a \in alloc : a[1] = "name"}, m \in RawModelSamples}
ElemAt(c, offset) ==
    IF ArrayBuf(c) \in live THEN {arrays[c][offset + 1]}
    ELSE {arrays[c][offset + 1]} \cup GarbageElems

(* ---------------- get_entry_points ---------------- *)
gep_call ==
    /\ pc = "idle"
    /\ \E status \in {"Success", "Unhandled"}, n \in 0..MaxEntryPoints :
       \E valid \in [1..n -> BOOLEAN], models \in [1..n -> RawModelSamples] :
         LET tr == <<CallEv("get_entry_points", NULL, status)>>
             got == status = "Success"
             names == {NameBuf(0, j) : j \in 1..n}
         IN /\ trace' = tr
            /\ failedAt' = IF got THEN -1 ELSE Len(tr)
            /\ arrays' = IF got
                  THEN [NoArrays EXCEPT ![0] =
                          [j \in 1..n |-> [name |-> NameBuf(0, j),
                                           execution_model |-> models[j],
                                           id |-> j, text |-> <<>>]]]
                  ELSE NoArrays
            /\ alloc' = IF got THEN {ArrayBuf(0)} \cup names ELSE {}
            /\ live' = alloc'
            /\ mem' = IF got
                  THEN [a \in names |-> IF valid[a[3]] THEN <<96 + a[3]>> ELSE BadBytes]
                  ELSE NoMem
            /\ IF Check(status)
               THEN pc' = "gep_iter" /\ ret' = Pending
               ELSE Return(Err)
    /\ op' = "get_entry_points"
    /\ args' = <<>>
    /\ k' = 0 /\ i' = 0 /\ cur' = NoElem /\ out' = <<>> /\ collect' = TRUE
    /\ UNCHANGED <<decorations, lastSet, handles, deleted>>

\* (0..entry_points_raw_length).map(..): next offset, or collect() is complete
gep_iter ==
    /\ pc = "gep_iter"
    /\ IF i = Len(arrays[0])
       THEN /\ Return(Ok(out))
            /\ UNCHANGED <<cur, trace>>
       ELSE /\ \E e \in ElemAt(0, i) : cur' = e
            /\ trace' = Append(trace, ReadEv("elem", ElemPtr(0, i), Liveness(ArrayBuf(0))))
            /\ pc' = "gep_convert"
            /\ UNCHANGED ret
    /\ UNCHANGED <<op, args, decorations, lastSet, arrays, mem, alloc, live,
                   failedAt, k, i, out, collect, handles, deleted>>

gep_convert ==
    /\ pc = "gep_convert"
    /\ \E bytes \in BytesAt(cur.name) :
         LET tr == Append(trace, ReadEv("name", cur.name, Liveness(cur.name)))
             name == IntoString(bytes)
             em == ExecutionModel_from_raw(cur.execution_model)
         IN /\ trace' = tr
            /\ IF name.ok /\ em.ok
               THEN /\ cur' = [cur EXCEPT !.text = name.val]
                    /\ pc' = "gep_free_name"
                    /\ UNCHANGED <<ret, failedAt>>
               ELSE /\ Return(Err)
                    /\ failedAt' = Fail(tr)
                    /\ UNCHANGED cur
    /\ UNCHANGED <<op, args, decorations, lastSet, arrays, mem, alloc, live,
                   k, i, out, collect, handles, deleted>>

gep_free_name ==
    /\ pc = "gep_free_name"
    /\ \E status \in FreeStatuses(cur.name) :
         LET tr == Append(trace, CallEv("free", cur.name, status))
         IN /\ trace' = tr
            /\ live' = live \ {cur.name}
            /\ IF Check(status)
               THEN pc' = "gep_free_elem" /\ UNCHANGED <<ret, failedAt>>
               ELSE Return(Err) /\ failedAt' = Fail(tr)
    /\ UNCHANGED <<op, args, decorations, lastSet, arrays, mem, alloc,
                   k, i, cur, out, collect, handles, deleted>>

\* sc_internal_free_pointer(entry_point_raw_ptr): the pointer to THIS element
gep_free_elem ==
    /\ pc = "gep_free_elem"
    /\ \E status \in FreeStatuses(ElemPtr(0, i)) :
         LET tr == Append(trace, CallEv("free", ElemPtr(0, i), status))
         IN /\ trace' = tr
            /\ live' = live \ {ElemPtr(0, i)}
            /\ IF Check(status)
               THEN /\ out' = Append(out,
                         [name |-> cur.text,
                          execution_model |-> ExecutionModel_from_raw(cur.execution_model).val])
                    /\ i' = i + 1
                    /\ pc' = "gep_iter"
                    /\ UNCHANGED <<ret, failedAt>>
               ELSE /\ Return(Err)
                    /\ failedAt' = Fail(tr)
                    /\ UNCHANGED <<out, i>>
    /\ UNCHANGED <<op, args, decorations, lastSet, arrays, mem, alloc,
                   k, cur, collect, handles, deleted>>

(* ---------------- get_shader_resources ---------------- *)
\* the resources the engine reports, as one array per category
ResourceArrays(n, place) ==
    [c \in 0..NumCategories |->
        LET idx == SelectSeq([j \in 1..n |-> j], LAMBDA j : place[j] = c)
        IN [q \in 1..Len(idx) |-> [name |-> NameBuf(c, idx[q]),
                                   execution_model |-> "ExecutionModelMax",
                                   id |-> idx[q], text |-> <<>>]]]

gsr_call ==
    /\ pc = "idle"
    /\ \E status \in {"Success", "Unhandled"}, n \in 0..MaxResources :
       \E valid \in [1..n -> BOOLEAN], place \in [1..n -> 1..NumCategories] :
         /\ \A a, b \in 1..n : a <= b => place[a] <= place[b]
         /\ LET tr == <<CallEv("get_shader_resources", NULL, status)>>
                got == status = "Success"
                names == {NameBuf(place[j], j) : j \in 1..n}
            IN /\ trace' = tr
               /\ failedAt' = IF got THEN -1 ELSE Len(tr)
               /\ arrays' = IF got THEN ResourceArrays(n, place) ELSE NoArrays
               /\ alloc' = IF got
                     THEN {ArrayBuf(c) : c \in 1..NumCategories} \cup names
                     ELSE {}
               /\ live' = alloc'
               /\ mem' = IF got
                     THEN [a \in names |-> IF valid[a[3]] THEN <<96 + a[3]>> ELSE BadBytes]
                     ELSE NoMem
               /\ IF Check(status)
                  THEN pc' = "fill_iter" /\ k' = 1 /\ out' = << <<>> >> /\ ret' = Pending
                  ELSE Return(Err) /\ k' = 0 /\ out' = <<>>
    /\ op' = "get_shader_resources"
    /\ args' = <<>>
    /\ i' = 0 /\ cur' = NoElem /\ collect' = TRUE
    /\ UNCHANGED <<decorations, lastSet, handles, deleted>>

FillElemFailNext_Propagate == "returned"

\* where fill_resources goes when an element's conversion fails: collect()
\* stops, and the array's data is still freed before `resources` is returned
FillElemFailNext == "fill_free_array"

\* resources_raw.iter().map(..): next element of category k, or collect() is complete
fill_iter ==
    /\ pc = "fill_iter"
    /\ IF i = Len(arrays[k])
       THEN /\ pc' = "fill_free_array"
            /\ UNCHANGED <<cur, trace>>
       ELSE /\ \E e \in ElemAt(k, i) : cur' = e
            /\ trace' = Append(trace, ReadEv("elem", ElemPtr(k, i), Liveness(ArrayBuf(k))))
            /\ pc' = "fill_convert"
    /\ UNCHANGED <<op, args, ret, decorations, lastSet, arrays, mem, alloc, live,
                   failedAt, k, i, out, collect, handles, deleted>>

fill_convert ==
    /\ pc = "fill_convert"
    /\ \E bytes \in BytesAt(cur.name) :
         LET tr == Append(trace, ReadEv("name", cur.name, Liveness(cur.name)))
             name == IntoString(bytes)
         IN /\ trace' = tr
            /\ IF name.ok
               THEN /\ cur' = [cur EXCEPT !.text = name.val]
                    /\ pc' = "fill_free_name"
                    /\ UNCHANGED <<ret, failedAt, collect>>
               ELSE /\ collect' = FALSE
                    /\ failedAt' = Fail(tr)
                    /\ pc' = FillElemFailNext
                    /\ ret' = IF pc' = "returned" THEN Err ELSE ret
                    /\ UNCHANGED cur
    /\ UNCHANGED <<op, args, decorations, lastSet, arrays, mem, alloc, live,
                   k, i, out, handles, deleted>>

fill_free_name ==
    /\ pc = "fill_free_name"
    /\ \E status \in FreeStatuses(cur.name) :
         LET tr == Append(trace, CallEv("free", cur.name, status))
         IN /\ trace' = tr
            /\ live' = live \ {cur.name}
            /\ IF Check(status)
               THEN /\ out' = [out EXCEPT ![k] = Append(@, [id |-> cur.id, name |-> cur.text])]
                    /\ i' = i + 1
                    /\ pc' = "fill_iter"
                    /\ UNCHANGED <<ret, failedAt, collect>>
               ELSE /\ collect' = FALSE
                    /\ failedAt' = Fail(tr)
                    /\ pc' = FillElemFailNext
                    /\ ret' = IF pc' = "returned" THEN Err ELSE ret
                    /\ UNCHANGED <<out, i>>
    /\ UNCHANGED <<op, args, decorations, lastSet, arrays, mem, alloc,
                   k, cur, handles, deleted>>

\* check!(sc_internal_free_pointer(array_raw.data)); resources  -- then `?`
\* and the next category
fill_free_array ==
    /\ pc = "fill_free_array"
    /\ \E status \in FreeStatuses(ArrayBuf(k)) :
         LET tr == Append(trace, CallEv("free", ArrayBuf(k), status))
         IN /\ trace' = tr
            /\ live' = live \ {ArrayBuf(k)}
            /\ IF ~Check(status)
               THEN /\ Return(Err) /\ failedAt' = Fail(tr)
                    /\ UNCHANGED <<k, i, out, collect>>
               ELSE IF ~collect
               THEN /\ Return(Err)
                    /\ UNCHANGED <<failedAt, k, i, out, collect>>
               ELSE IF k = NumCategories
               THEN /\ Return(Ok(out))
                    /\ UNCHANGED <<failedAt, k, i, out, collect>>
               ELSE /\ k' = k + 1 /\ i' = 0 /\ out' = Append(out, <<>>)
                    /\ pc' = "fill_iter"
                    /\ UNCHANGED <<ret, failedAt, collect>>
    /\ UNCHANGED <<op, args, decorations, lastSet, arrays, mem, alloc,
                   cur, handles, deleted>>

(* ---------------- back in the caller ---------------- *)
\* the caller has the result; the call's locals and the pointers it held are gone
caller_resumes ==
    /\ pc = "returned"
    /\ pc' = "idle"
    /\ op' = "none" /\ args' = <<>> /\ ret' = Pending
    /\ arrays' = NoArrays /\ mem' = NoMem /\ alloc' = {} /\ live' = {}
    /\ trace' = <<>> /\ failedAt' = -1
    /\ k' = 0 /\ i' = 0 /\ cur' = NoElem /\ out' = <<>> /\ collect' = TRUE
    /\ UNCHANGED <<decorations, lastSet, handles, deleted>>

(* ---------------- Compiler handles ---------------- *)
\* #[derive(Clone)]: the new handle holds a copy of the same engine pointer
Clone(h) ==
    /\ handles[h].st = "live"
    /\ Len(handles) < MaxHandles
    /\ handles' = Append(handles, [sc_compiler |-> handles[h].sc_compiler, st |-> "live"])
    /\ UNCHANGED deleted
    /\ UNCHANGED opVars

\* a move: the value lives on under a new owner, the old binding is unusable
\* and its drop never runs
Move(h) ==
    /\ handles[h].st = "live"
    /\ Len(handles) < MaxHandles
    /\ handles' = Append([handles EXCEPT ![h].st = "moved"],
                         [sc_compiler |-> handles[h].sc_compiler, st |-> "live"])
    /\ UNCHANGED deleted
    /\ UNCHANGED opVars

\* Drop for Compiler: sc_internal_compiler_delete(self.sc_compiler)
Drop(h) ==
    /\ handles[h].st = "live"
    /\ handles' = [handles EXCEPT ![h].st = "dropped"]
    /\ deleted' = [deleted EXCEPT ![handles[h].sc_compiler] = @ + 1]
    /\ UNCHANGED opVars

(* ---------------- specifications ---------------- *)
Next ==
    \/ \E id \in AllIds, d \in KindSamples : get_decoration(id, d)
    \/ \E id \in AllIds, d \in KindSamples, v \in Literals : set_decoration(id, d, v)
    \/ compile_call
    \/ compile_decode
    \/ compile_free
    \/ gep_call
    \/ gep_iter
    \/ gep_convert
    \/ gep_free_name
    \/ gep_free_elem
    \/ gsr_call
    \/ fill_iter
    \/ fill_convert
    \/ fill_free_name
    \/ fill_free_array
    \/ caller_resumes

Spec == Init /\ [][Next]_vars

NextHandles ==
    \/ \E h \in DOMAIN handles : Clone(h)
    \/ \E h \in DOMAIN handles : Move(h)
    \/ \E h \in DOMAIN handles : Drop(h)

SpecHandles == Init /\ [][NextHandles]_vars

(* ---------------- properties ---------------- *)
IsFree(j) == trace[j].ev = "call" /\ trace[j].fn = "free"
IsFreeOf(j, b) == IsFree(j) /\ trace[j].ptr = b
FreeCount(b) == Cardinality({j \in 1..Len(trace) : IsFreeOf(j, b)})
IsElemRead(j) == trace[j].ev = "read" /\ trace[j].fn = "elem"
\* the category (0 for entry points) an event concerns
CatOf(j) == trace[j].ptr[2]
EngineSucceeded == Len(trace) >= 1 /\ trace[1].st = "Success"
Returned(o) == pc = "returned" /\ op = o

\* C1: after get_entry_points or get_shader_resources returns, Ok or Err, no
\* engine buffer allocated for the call is still outstanding.
C1_NoOutstandingBuffers ==
    (Returned("get_entry_points") \/ Returned("get_shader_resources")) => live = {}

\* C2: the engine's delete call is issued at most once per loaded module, and
\* no usable handle refers to a module that has been deleted.
C2_DeleteOncePerModule ==
    /\ \A m \in Modules : deleted[m] <= 1
    /\ \A h \in DOMAIN handles :
          handles[h].st = "live" => deleted[handles[h].sc_compiler] = 0

\* C3: no element of an engine array is read after the array's buffer has
\* been passed to the free call.
C3_ElementsReadBeforeFree ==
    \A a, b \in 1..Len(trace) :
        (a < b /\ IsElemRead(b)) => ~IsFreeOf(a, ArrayBuf(CatOf(b)))

\* C4: in get_entry_points every name buffer and the array buffer are passed
\* to the free call exactly once, and nothing else is ever passed to it.
C4_EntryPointBuffersFreedOnce ==
    (Returned("get_entry_points") /\ EngineSucceeded) =>
        /\ \A b \in alloc : FreeCount(b) = 1
        /\ \A j \in 1..Len(trace) : IsFree(j) => trace[j].ptr \in alloc

\* C5: whenever the engine handed compile() a source buffer, the buffer is
\* passed to the free call exactly once, after its content was copied out,
\* also when the bytes are not valid text.
C5_SourceBufferFreedOnce ==
    (Returned("compile") /\ EngineSucceeded) =>
        /\ FreeCount(SourceBuf) = 1
        /\ \A j \in 1..Len(trace) : IsFreeOf(j, SourceBuf) =>
              \E r \in 1..(j - 1) : trace[r].ev = "read" /\ trace[r].ptr = SourceBuf

\* C6: get_decoration(id, kind) returns exactly the literal of the most
\* recent successful set_decoration(id, kind, literal), whatever other
\* operations ran in between.
C6_GetReturnsLatestSet ==
    (Returned("get_decoration") /\ args[1] \in ValidIds) =>
        (lastSet[<<args[1], args[2]>>] # {} =>
            ret.ok /\ {ret.val} = lastSet[<<args[1], args[2]>>])

C6_Witness ==
    /\ Returned("get_decoration") /\ args[1] \in ValidIds
    /\ lastSet[<<args[1], args[2]>>] = {1}
    /\ \E d \in KindSamples : lastSet[<<args[1], d>>] = {0}
    /\ ret.ok /\ ret.val = 1

\* C7: get_decoration on a pair with no stored decoration returns an error,
\* never Ok(0); a pair decorated with literal 0 returns Ok(0).
C7_UndecoratedGetFails ==
    Returned("get_decoration") =>
        LET stored == IF args[1] \in ValidIds
                      THEN decorations[<<args[1], Decoration_as_raw(args[2])>>]
                      ELSE {}
        IN /\ stored = {} => ~ret.ok
           /\ stored = {0} => ret.ok /\ ret.val = 0

C7_Witness ==
    /\ Returned("get_decoration") /\ args[1] \in ValidIds
    /\ decorations[<<args[1], Decoration_as_raw(args[2])>>] = {}
    /\ ~ret.ok

\* C8: get_entry_points returns Err(Unhandled) when some entry point has an
\* unreadable name or an unmapped execution model, and otherwise Ok with all
\* `count` entry points in the engine's order.
EntryPointOk(j) ==
    /\ IntoString(mem[NameBuf(0, j)]).ok
    /\ ExecutionModel_from_raw(arrays[0][j].execution_model).ok
C8_AllOrNothing ==
    (Returned("get_entry_points") /\ EngineSucceeded) =>
        IF \A j \in 1..Len(arrays[0]) : EntryPointOk(j)
        THEN /\ ret.ok
             /\ Len(ret.val) = Len(arrays[0])
             /\ \A j \in 1..Len(arrays[0]) :
                   /\ ret.val[j].name = mem[NameBuf(0, j)]
                   /\ ret.val[j].execution_model =
                        ExecutionModel_from_raw(arrays[0][j].execution_model).val
        ELSE ret = Err

\* C9: get_shader_resources handles the categories in their fixed order; when
\* an element of category c fails to convert, the array buffer of c is still
\* passed to the free call before the error is returned, and nothing of a
\* later category is read or freed.
ConversionFailed == failedAt # -1 /\ trace[failedAt].ev = "read"
C9_CategoryOrderAndCleanup ==
    op = "get_shader_resources" =>
        /\ \A a, b \in 1..Len(trace) : a < b => CatOf(a) <= CatOf(b)
        /\ \A j \in 2..Len(trace) : \A c \in 1..(CatOf(j) - 1) :
              \E f \in 1..(j - 1) : IsFreeOf(f, ArrayBuf(c))
        /\ (pc = "returned" /\ ConversionFailed) =>
              /\ ~ret.ok
              /\ Len(trace) = failedAt + 1
              /\ IsFreeOf(Len(trace), ArrayBuf(CatOf(failedAt)))
              /\ \A j \in 1..Len(trace) : CatOf(j) <= CatOf(failedAt)
        /\ (pc = "returned" /\ ret.ok) =>
              /\ Len(ret.val) = NumCategories
              /\ \A c \in 1..NumCategories : FreeCount(ArrayBuf(c)) = 1

C9_Witness ==
    /\ Returned("get_shader_resources") /\ ConversionFailed
    /\ CatOf(failedAt) = 3
    /\ IsFreeOf(Len(trace), ArrayBuf(3))
    /\ ArrayBuf(4) \in live

\* C10: once an engine call of an operation returned a non-success status or
\* a conversion failed, the operation issues no further engine call other
\* than free calls on buffers it had obtained.
C10_OnlyCleanupAfterFailure ==
    failedAt # -1 =>
        \A j \in (failedAt + 1)..Len(trace) :
            trace[j].ev = "call" => (trace[j].fn = "free" /\ trace[j].ptr \in alloc)

C10_Witness ==
    /\ failedAt # -1
    /\ Len(trace) > failedAt
    /\ IsFreeOf(Len(trace), ArrayBuf(k))
    /\ ~ret.ok
====
